---- MODULE Spec2Model ----
(***************************************************************************)
(* A model of the desktop TODO application: TaskManager (the JSON store),  *)
(* and TodoApp (the task list, its projection into listbox rows, and the   *)
(* event handlers that mutate it).                                         *)
(*                                                                         *)
(* Python values are modelled as follows.  A list is a sequence, addressed *)
(* with the source's 0-based indices through At/Pop/Insert.  A dict is a   *)
(* function from keys to values (a record); a key the dict lacks is absent *)
(* from its DOMAIN, and dict.get is Get.  None is the integer -1 where the *)
(* source stores None in place of an index.                                *)
(***************************************************************************)
EXTENDS Integers, Sequences, FiniteSets, TLC

VARIABLES
    tasks,              \* TodoApp.tasks: the in-memory task list
    index_map,          \* TodoApp.index_map: listbox row -> <<task_idx, subtask_idx>>
    sort_mode,          \* TodoApp.sort_mode
    drag_start_index,   \* TodoApp.drag_start_index
    file,               \* the backing file at TaskManager.path
    backups,            \* the backup files beside it: timestamp -> content
    tmp,                \* the temporary file TaskManager.save writes
    pc,                 \* where the process is inside TaskManager.save
    pending,            \* the task list the running save was called with
    clock,              \* int(time.time())
    issued,             \* every id a task has held since the application started
    last                \* an observer's record of the operation performed last

appVars == <<tasks, index_map, sort_mode, drag_start_index, issued>>

storeVars == <<backups, tmp, pc, pending, clock>>

vars == <<tasks, index_map, sort_mode, drag_start_index, file, backups, tmp, pc,
          pending, clock, issued, last>>

(***************************************************************************)
(* Bounds of the model.                                                    *)
(***************************************************************************)
MaxRows == 2

MaxDragTasks == 3

MaxTime == 2

MaxSortTasks == 4

MaxOps == 2

(***************************************************************************)
(* Python list and dict primitives.                                        *)
(***************************************************************************)
None == -1

At(s, i) == s[i + 1]

InRange(s, i) == i >= 0 /\ i < Len(s)

Pop(s, i) == SubSeq(s, 1, i) \o SubSeq(s, i + 2, Len(s))

Min(a, b) == IF a < b THEN a ELSE b

Insert(s, i, x) ==
    LET j == Min(i, Len(s))
    IN  SubSeq(s, 1, j) \o <<x>> \o SubSeq(s, j + 1, Len(s))

Get(d, k, default) == IF k \in DOMAIN d THEN d[k] ELSE default

Put(d, k, v) == (k :> v) @@ d

Range(s) == {s[i] : i \in DOMAIN s}

(***************************************************************************)
(* Strings are compared by Python code point by code point.  Chars gives   *)
(* the code points of the strings the sort keys range over: the digits are *)
(* 48..57 and the hyphen is 45.                                            *)
(***************************************************************************)
Chars(s) ==
    CASE s = ""           -> <<>>
      [] s = "2025-12-31" -> <<50, 48, 50, 53, 45, 49, 50, 45, 51, 49>>
      [] s = "2026-01-01" -> <<50, 48, 50, 54, 45, 48, 49, 45, 48, 49>>
      [] s = "2026-02-01" -> <<50, 48, 50, 54, 45, 48, 50, 45, 48, 49>>
      [] s = "2026-9-1"   -> <<50, 48, 50, 54, 45, 57, 45, 49>>
      [] s = "9999-99-99" -> <<57, 57, 57, 57, 45, 57, 57, 45, 57, 57>>

RECURSIVE SeqLess(_, _)
SeqLess(a, b) ==
    IF b = <<>> THEN FALSE
    ELSE IF a = <<>> THEN TRUE
    ELSE IF Head(a) # Head(b) THEN Head(a) < Head(b)
    ELSE SeqLess(Tail(a), Tail(b))

StrLess(a, b) == SeqLess(Chars(a), Chars(b))

(***************************************************************************)
(* View projection: TodoApp.get_sorted_task_indices and update_task_list.  *)
(***************************************************************************)
SortModes == {"none", "priority", "due_date"}

priority_order ==
    [p \in {"high", "medium", "low", ""} |->
        CASE p = "high" -> 0 [] p = "medium" -> 1 [] p = "low" -> 2 [] p = "" -> 3]

\* a key that puts an unknown priority first
priority_key_unknown_first(task) ==
    LET priority == Get(task, "priority", "")
    IN  Get(priority_order, priority, 0)

priority_key(task) ==
    LET priority == Get(task, "priority", "")
    IN  Get(priority_order, priority, 3)

\* a key without the sentinel for an empty due date
date_key_without_sentinel(task) == Get(task, "due_date", "")

date_key(task) ==
    LET due_date == Get(task, "due_date", "")
    IN  IF due_date = "" THEN "9999-99-99" ELSE due_date

\* whether the sort key of task a is strictly less than that of task b
KeyLess(mode, a, b) ==
    IF mode = "priority" THEN priority_key(a) < priority_key(b)
    ELSE StrLess(date_key(a), date_key(b))

\* list.sort(key=...) is stable: an element goes after every element already
\* placed whose key is not greater than its own.
RECURSIVE StableInsert(_, _, _, _)
StableInsert(sorted, idx, ts, mode) ==
    IF sorted = <<>> THEN <<idx>>
    ELSE IF KeyLess(mode, At(ts, idx), At(ts, Head(sorted)))
         THEN <<idx>> \o sorted
         ELSE <<Head(sorted)>> \o StableInsert(Tail(sorted), idx, ts, mode)

RECURSIVE StableSort(_, _, _)
StableSort(n, ts, mode) ==
    IF n = 0 THEN <<>>
    ELSE StableInsert(StableSort(n - 1, ts, mode), n - 1, ts, mode)

get_sorted_task_indices(ts, mode) ==
    IF mode = "none" THEN [i \in 1..Len(ts) |-> i - 1]
    ELSE StableSort(Len(ts), ts, mode)

\* the rows of one task with the subtask rows in reverse order
TaskRowsReversed(ts, task_idx) ==
    LET subs == Get(At(ts, task_idx), "subtasks", <<>>)
    IN  <<<<task_idx, None>>>> \o [j \in 1..Len(subs) |-> <<task_idx, Len(subs) - j>>]

\* the rows of one task: its own row, then one row per subtask in stored order
TaskRows(ts, task_idx) ==
    LET subs == Get(At(ts, task_idx), "subtasks", <<>>)
    IN  <<<<task_idx, None>>>> \o [j \in 1..Len(subs) |-> <<task_idx, j - 1>>]

RECURSIVE FlattenRows(_, _)
FlattenRows(ts, sorted_indices) ==
    IF sorted_indices = <<>> THEN <<>>
    ELSE TaskRows(ts, Head(sorted_indices)) \o FlattenRows(ts, Tail(sorted_indices))

update_task_list(ts, mode) == FlattenRows(ts, get_sorted_task_indices(ts, mode))

(***************************************************************************)
(* The JSON text of the backing file, as a sequence of tokens.  A token is *)
(* a record [t, s, n]: t is its kind (a punctuation mark, "ws" for a run   *)
(* of whitespace, "str", "int", "true", "false", "junk" for text that is   *)
(* no JSON token, "bad" for a byte sequence that is not valid UTF-8), s    *)
(* the text of a string and n the value of a number.                       *)
(***************************************************************************)
Tok(t) == [t |-> t, s |-> "", n |-> 0]

StrTok(s) == [t |-> "str", s |-> s, n |-> 0]

IntTok(n) == [t |-> "int", s |-> "", n |-> n]

BoolTok(b) == IF b THEN Tok("true") ELSE Tok("false")

RECURSIVE Join(_)
Join(parts) ==
    IF parts = <<>> THEN <<>>
    ELSE IF Len(parts) = 1 THEN Head(parts)
    ELSE Head(parts) \o <<Tok(","), Tok("ws")>> \o Join(Tail(parts))

\* json.dump(..., indent=2): an empty container is written closed at once, a
\* non-empty one with each item on a line of its own
DumpContainer(open, close, parts) ==
    IF parts = <<>> THEN <<Tok(open), Tok(close)>>
    ELSE <<Tok(open), Tok("ws")>> \o Join(parts) \o <<Tok("ws"), Tok(close)>>

DumpMember(key, valueToks) == <<StrTok(key), Tok(":"), Tok("ws")>> \o valueToks

\* the keys of a task or subtask dict, in the order add_task and add_subtask
\* insert them; dict equality does not depend on the order
KeyOrder == <<"id", "title", "completed", "priority", "due_date", "subtasks">>

RECURSIVE DumpDict(_, _)
RECURSIVE DumpList(_)
DumpField(d, key) ==
    CASE key = "id"        -> <<IntTok(d[key])>>
      [] key = "completed" -> <<BoolTok(d[key])>>
      [] key = "subtasks"  -> DumpList(d[key])
      [] OTHER             -> <<StrTok(d[key])>>

DumpMembers(d, keys) ==
    [i \in 1..Len(keys) |-> DumpMember(keys[i], DumpField(d, keys[i]))]

\* a serializer that writes the scalar members only
DumpDictFlat(d, keys) ==
    DumpContainer("{", "}",
        DumpMembers(d, SelectSeq(keys, LAMBDA k : k \in DOMAIN d /\ k # "subtasks")))

DumpDict(d, keys) ==
    DumpContainer("{", "}", DumpMembers(d, SelectSeq(keys, LAMBDA k : k \in DOMAIN d)))

DumpList(items) ==
    DumpContainer("[", "]", [i \in 1..Len(items) |-> DumpDict(items[i], KeyOrder)])

\* json.dump(tasks, tf, indent=2, ensure_ascii=False)
Dump(ts) == DumpList(ts)

(***************************************************************************)
(* json.load: a recursive-descent parse of the token sequence.  A parse    *)
(* yields [ok, kind, val, next]: whether a value was read, its kind, the   *)
(* Python value, and the position after it.                                *)
(***************************************************************************)
ParseFail == [ok |-> FALSE, kind |-> "", val |-> <<>>, next |-> 0]

Parsed(kind, val, next) == [ok |-> TRUE, kind |-> kind, val |-> val, next |-> next]

RECURSIVE SkipWs(_, _)
SkipWs(toks, i) ==
    IF i <= Len(toks) /\ toks[i].t = "ws" THEN SkipWs(toks, i + 1) ELSE i

KindAt(toks, i) == IF i <= Len(toks) THEN toks[i].t ELSE "eof"

RECURSIVE ParseValue(_, _)
RECURSIVE ParseElems(_, _, _)
RECURSIVE ParseMembers(_, _, _)

\* after "[" or ",": the next element, then "," or "]"
ParseElems(toks, i, acc) ==
    LET v == ParseValue(toks, i)
        j == SkipWs(toks, v.next)
    IN  IF ~v.ok THEN ParseFail
        ELSE IF KindAt(toks, j) = "," THEN ParseElems(toks, j + 1, Append(acc, v.val))
        ELSE IF KindAt(toks, j) = "]" THEN Parsed("list", Append(acc, v.val), j + 1)
        ELSE ParseFail

\* after "{" or ",": the next key, ":", its value, then "," or "}"
ParseMembers(toks, i, acc) ==
    LET k == SkipWs(toks, i)
        c == SkipWs(toks, k + 1)
        v == ParseValue(toks, c + 1)
        j == SkipWs(toks, v.next)
    IN  IF KindAt(toks, k) # "str" \/ KindAt(toks, c) # ":" THEN ParseFail
        ELSE IF ~v.ok THEN ParseFail
        ELSE IF KindAt(toks, j) = ","
             THEN ParseMembers(toks, j + 1, Put(acc, toks[k].s, v.val))
        ELSE IF KindAt(toks, j) = "}"
             THEN Parsed("dict", Put(acc, toks[k].s, v.val), j + 1)
        ELSE ParseFail

ParseValue(toks, i0) ==
    LET i == SkipWs(toks, i0)
        t == KindAt(toks, i)
        j == SkipWs(toks, i + 1)
    IN  CASE t = "str"   -> Parsed("str", toks[i].s, i + 1)
          [] t = "int"   -> Parsed("int", toks[i].n, i + 1)
          [] t = "true"  -> Parsed("bool", TRUE, i + 1)
          [] t = "false" -> Parsed("bool", FALSE, i + 1)
          [] t = "["     -> IF KindAt(toks, j) = "]" THEN Parsed("list", <<>>, j + 1)
                            ELSE ParseElems(toks, i + 1, <<>>)
          [] t = "{"     -> IF KindAt(toks, j) = "}" THEN Parsed("dict", <<>>, j + 1)
                            ELSE ParseMembers(toks, i + 1, <<>>)
          [] OTHER       -> ParseFail

\* json.loads: one value, and nothing but whitespace after it
JsonLoads(toks) ==
    LET v == ParseValue(toks, 1)
    IN  IF v.ok /\ SkipWs(toks, v.next) = Len(toks) + 1 THEN v ELSE ParseFail

(***************************************************************************)
(* The backing file.  It is absent, or unreadable (open raises an OSError  *)
(* other than FileNotFoundError), or holds a token sequence.               *)
(***************************************************************************)
Absent == [exists |-> FALSE, readable |-> FALSE, bytes |-> <<>>]

Holding(bytes) == [exists |-> TRUE, readable |-> TRUE, bytes |-> bytes]

Unreadable(bytes) == [exists |-> TRUE, readable |-> FALSE, bytes |-> bytes]

ValidUtf8(bytes) == \A i \in DOMAIN bytes : bytes[i].t # "bad"

(***************************************************************************)
(* TaskManager.load.  The outcome is [raised, exc, data, corrupt]: whether *)
(* an exception leaves load, which one, the list returned, and whether the *)
(* JSONDecodeError handler (the backup) ran.                               *)
(***************************************************************************)
Returned(data, corrupt) ==
    [raised |-> FALSE, exc |-> "", data |-> data, corrupt |-> corrupt]

Raised(exc) == [raised |-> TRUE, exc |-> exc, data |-> <<>>, corrupt |-> FALSE]

load(f) ==
    IF ~f.exists THEN Returned(<<>>, FALSE)                    \* FileNotFoundError
    ELSE IF ~f.readable THEN Raised("PermissionError")         \* not caught
    ELSE IF ~ValidUtf8(f.bytes) THEN Raised("UnicodeDecodeError")  \* not caught
    ELSE LET data == JsonLoads(f.bytes)
         IN  IF data.ok /\ data.kind = "list" THEN Returned(data.val, FALSE)
             ELSE Returned(<<>>, TRUE)                         \* JSONDecodeError

\* shutil.copy2(path, bak) inside the handler; any exception is swallowed.
\* copy is what the copy does: "ok", "none" (it fails before the backup
\* exists) or "partial" (it fails after writing a part of it)
CopyOutcomes == {"ok", "none", "partial"}

Backup(bk, now, bytes, copy) ==
    CASE copy = "ok"      -> (now :> bytes) @@ bk
      [] copy = "partial" -> (now :> SubSeq(bytes, 1, Len(bytes) \div 2)) @@ bk
      [] copy = "none"    -> bk

Times == 1..MaxTime

TaskManager_load(now, copy) ==
    /\ pc = "idle"
    /\ now >= clock
    /\ clock' = now
    /\ LET r == load(file)
       IN  /\ backups' = IF r.corrupt THEN Backup(backups, now, file.bytes, copy)
                         ELSE backups
           /\ last' = [op |-> "load", result |-> r, now |-> now,
                       copy |-> IF r.corrupt THEN copy ELSE "",
                       after_save |-> last.op = "save",
                       saved |-> IF last.op = "save" THEN last.saved ELSE <<>>]
    /\ UNCHANGED <<file, tmp, pc, pending>>
    /\ UNCHANGED appVars

(***************************************************************************)
(* TaskManager.save, step by step: NamedTemporaryFile creates the          *)
(* temporary file in the default temporary directory, json.dump fills it,  *)
(* shutil.move puts it at the target path.  shutil.move renames when       *)
(* os.rename succeeds; when os.rename raises OSError (the temporary        *)
(* directory is on another filesystem) it copies the file over the target  *)
(* with copy2 and unlinks the source.                                      *)
(***************************************************************************)
\* a write reaches the file in pieces: the first half, then the rest
NextChunk(full, written) ==
    IF written = <<>> /\ Len(full) > 1 THEN SubSeq(full, 1, Len(full) \div 2)
    ELSE full

save_begin(ts) ==
    /\ pc = "idle"
    /\ tmp' = Holding(<<>>)
    /\ pending' = ts
    /\ pc' = "dump"
    /\ last' = [op |-> "save_begin", old |-> file, saved |-> ts]
    /\ UNCHANGED <<file, backups, clock>>
    /\ UNCHANGED appVars

save_dump ==
    /\ pc = "dump"
    /\ tmp' = Holding(NextChunk(Dump(pending), tmp.bytes))
    /\ pc' = IF tmp'.bytes = Dump(pending) THEN "move" ELSE "dump"
    /\ UNCHANGED <<file, backups, pending, clock, last>>
    /\ UNCHANGED appVars

\* json.dump or the close raises (the disk is full): save raises.  The
\* temporary file stays behind under a name no later call reads or reuses, so
\* tmp, the temporary file of the running save, is absent again.
save_dump_raises ==
    /\ pc = "dump"
    /\ pc' = "idle"
    /\ pending' = <<>>
    /\ tmp' = Absent
    /\ last' = [op |-> "save_raised", saved |-> last.saved]
    /\ UNCHANGED <<file, backups, clock>>
    /\ UNCHANGED appVars

\* shutil.move: os.rename(temp_name, path) succeeds
save_move_rename ==
    /\ pc = "move"
    /\ file' = Holding(tmp.bytes)
    /\ tmp' = Absent
    /\ pc' = "idle"
    /\ pending' = <<>>
    /\ last' = [op |-> "save", saved |-> last.saved]
    /\ UNCHANGED <<backups, clock>>
    /\ UNCHANGED appVars

\* shutil.move: os.rename raises OSError, copy2 opens the target for writing
save_move_copy_open ==
    /\ pc = "move"
    /\ file' = Holding(<<>>)
    /\ pc' = "copy"
    /\ UNCHANGED <<backups, tmp, pending, clock, last>>
    /\ UNCHANGED appVars

\* copy2 writes the next piece; after the last one the source is unlinked
save_move_copy_write ==
    /\ pc = "copy"
    /\ file' = Holding(NextChunk(tmp.bytes, file.bytes))
    /\ IF file'.bytes = tmp.bytes
       THEN /\ tmp' = Absent
            /\ pc' = "idle"
            /\ pending' = <<>>
            /\ last' = [op |-> "save", saved |-> last.saved]
       ELSE UNCHANGED <<tmp, pc, pending, last>>
    /\ UNCHANGED <<backups, clock>>
    /\ UNCHANGED appVars

\* copy2 raises while writing the target: save raises
save_move_copy_raises ==
    /\ pc = "copy"
    /\ pc' = "idle"
    /\ pending' = <<>>
    /\ tmp' = Absent
    /\ last' = [op |-> "save_raised", saved |-> last.saved]
    /\ UNCHANGED <<file, backups, clock>>
    /\ UNCHANGED appVars

\* the process stops inside save
crash ==
    /\ pc \in {"dump", "move", "copy"}
    /\ pc' = "idle"
    /\ pending' = <<>>
    /\ tmp' = Absent
    /\ last' = [op |-> "crash", old |-> last.old, saved |-> last.saved, at |-> pc]
    /\ UNCHANGED <<file, backups, clock>>
    /\ UNCHANGED appVars

(***************************************************************************)
(* The store on its own: the file starts in any of StoreFiles, and load    *)
(* and save are called in any order with the task lists of StoreTaskLists. *)
(***************************************************************************)
Sub(title, completed) ==
    [title |-> title, completed |-> completed, priority |-> "", due_date |-> ""]

Task(id, title, priority, due_date) ==
    [id |-> id, title |-> title, completed |-> FALSE, priority |-> priority,
     due_date |-> due_date]

WithSubtasks(task, subs) == Put(task, "subtasks", subs)

StoreTaskLists ==
    { <<>>,
      <<Task(1, "a", "high", "2026-01-01")>>,
      <<WithSubtasks(Task(1, "a", "", ""), <<>>)>>,
      <<WithSubtasks(Task(2, "b", "low", ""), <<Sub("x", TRUE), Sub("y", FALSE)>>),
        Task(1, "a", "medium", "2026-02-01")>> }

\* contents that are no JSON array
CorruptContents ==
    { <<>>,                                                  \* an empty file
      <<Tok("junk")>>,                                       \* not JSON
      <<StrTok("a")>>,                                       \* a JSON string
      DumpDict(Task(1, "a", "", ""), KeyOrder),              \* a JSON object
      SubSeq(Dump(<<Task(1, "a", "", "")>>), 1, 9),          \* a truncated array
      Dump(<<>>) \o <<Tok("junk")>>,                         \* text after the array
      <<Tok("["), IntTok(1), Tok(","), Tok("]")>> }          \* a trailing comma

StoreFiles ==
    {Absent}
    \cup {Holding(Dump(ts)) : ts \in StoreTaskLists}
    \cup {Holding(<<Tok("["), IntTok(1), Tok(","), IntTok(2), Tok("]")>>)}
    \cup {Holding(c) : c \in CorruptContents}
    \cup {Holding(<<Tok("bad")>>), Holding(Dump(<<>>) \o <<Tok("bad")>>)}
    \cup {Unreadable(Dump(<<>>))}

InitFiles(files) ==
    /\ tasks = <<>>
    /\ index_map = <<>>
    /\ sort_mode = "none"
    /\ drag_start_index = None
    /\ issued = {}
    /\ file \in files
    /\ backups = <<>>
    /\ tmp = Absent
    /\ pc = "idle"
    /\ pending = <<>>
    /\ clock = 1
    /\ last = [op |-> "init"]

\* load alone, on every kind of file
InitLoad == InitFiles(StoreFiles)

NextLoad == \E now \in Times, copy \in CopyOutcomes : TaskManager_load(now, copy)

SpecLoad == InitLoad /\ [][NextLoad]_vars

\* save and load within one second, from a file that is absent or was saved
\* before
InitStore == InitFiles({Absent} \cup {Holding(Dump(ts)) : ts \in StoreTaskLists})

NextStore ==
    \/ \E copy \in CopyOutcomes : TaskManager_load(clock, copy)
    \/ \E ts \in StoreTaskLists : save_begin(ts)
    \/ save_dump
    \/ save_dump_raises
    \/ save_move_rename
    \/ save_move_copy_open
    \/ save_move_copy_write
    \/ save_move_copy_raises
    \/ crash

SpecStore == InitStore /\ [][NextStore]_vars

(***************************************************************************)
(* TodoApp.  Each handler is one action.  A handler that calls             *)
(* task_manager.save takes sv, the outcome of that call: "ok", "raises"    *)
(* when save raises before the target file is touched, or "torn" when it   *)
(* raises inside shutil.move's copy, after the target was opened and a     *)
(* part of the new content written; the exception leaves the handler at    *)
(* once, so nothing after the save runs.  A result is what                 *)
(* TaskEditDialog.get_result returns: None or the confirmed record.        *)
(***************************************************************************)
Cancelled == [confirmed |-> FALSE]

Confirmed(title, priority, due_date) ==
    [confirmed |-> TRUE, title |-> title, priority |-> priority, due_date |-> due_date]

SetMax(S) == CHOOSE m \in S : \A x \in S : x <= m

\* a next_id that counts the tasks
next_id_by_count(ts) == Len(ts) + 1

\* TaskManager.next_id
next_id(ts) ==
    IF ts = <<>> THEN 1
    ELSE SetMax({Get(ts[i], "id", 0) : i \in DOMAIN ts}) + 1

\* the number of listbox rows the task list takes
Rows(ts) == Len(update_task_list(ts, "none"))

\* the ids the model lets next_id reach
MaxId == MaxRows + 1

\* the rows the listbox can report: curselection() is empty (None) or a row,
\* nearest(y) is -1 for an empty listbox and a row otherwise
Selections == {None} \cup (0..(Len(index_map) - 1))

NearestRows == IF index_map = <<>> THEN {-1} ELSE 0..(Len(index_map) - 1)

\* what an observer records of an event: the handler, the row the listbox
\* reported, and the result of the dialog
Event(op, row, result) == [op |-> op, row |-> row, result |-> result]

Ids(ts) == {Get(ts[i], "id", 0) : i \in DOMAIN ts}

\* a handler that saves the list first and changes it afterwards
SaveThenMutate(ts, sv) ==
    /\ tasks' = ts
    /\ file' = IF sv = "ok" THEN Holding(Dump(tasks)) ELSE file
    /\ index_map' = IF sv = "ok" THEN update_task_list(ts, sort_mode) ELSE index_map

\* self.task_manager.save(self.tasks); self.update_task_list()
SaveAndUpdate(ts, sv) ==
    /\ tasks' = ts
    /\ file' = CASE sv = "ok"     -> Holding(Dump(ts))
                [] sv = "torn"   -> Holding(NextChunk(Dump(ts), <<>>))
                [] sv = "raises" -> file
    /\ index_map' = IF sv = "ok" THEN update_task_list(ts, sort_mode) ELSE index_map

SaveOutcomes == {"ok", "raises", "torn"}

\* the handler returns, or an exception leaves it, with nothing changed
NoChange == UNCHANGED <<tasks, file, index_map>>

SetAt(s, i, x) == [s EXCEPT ![i + 1] = x]

\* a lookup that takes the row number for the stored index of a task
RowEntryByPosition(map, list_index) == <<list_index, None>>

\* task_idx, subtask_idx = self.index_map[list_index]
RowEntry(map, list_index) == At(map, list_index)

\* a new task that starts with an empty list of subtasks
NewTaskWithSubtasks(ts, result) ==
    [id |-> next_id(ts), title |-> result.title, completed |-> FALSE,
     priority |-> result.priority, due_date |-> result.due_date,
     subtasks |-> <<>>]

\* the dict add_task builds
NewTask(ts, result) ==
    [id |-> next_id(ts), title |-> result.title, completed |-> FALSE,
     priority |-> result.priority, due_date |-> result.due_date]

add_task(result, sv) ==
    /\ IF result.confirmed
       THEN LET task == NewTask(tasks, result)
            IN  /\ SaveAndUpdate(Append(tasks, task), sv)
                /\ issued' = issued \cup {task.id}
       ELSE NoChange /\ UNCHANGED issued
    /\ UNCHANGED <<sort_mode, drag_start_index>>
    /\ UNCHANGED storeVars

\* whether a row entry names a task, or a subtask, that the list holds;
\* edit_task raises when it does not, reading the fields for its dialog
Resolves(ts, task_idx, subtask_idx) ==
    /\ InRange(ts, task_idx)
    /\ subtask_idx # None =>
          /\ "subtasks" \in DOMAIN At(ts, task_idx)
          /\ InRange(At(ts, task_idx).subtasks, subtask_idx)

\* a toggle that marks the target completed whatever it was
ToggledToCompleted(ts, task_idx, subtask_idx) ==
    IF ~Resolves(ts, task_idx, subtask_idx) THEN [tasks |-> ts, raised |-> TRUE]
    ELSE LET task == At(ts, task_idx) IN
         [tasks |-> SetAt(ts, task_idx,
                       IF subtask_idx = None THEN Put(task, "completed", TRUE)
                       ELSE Put(task, "subtasks",
                                SetAt(task.subtasks, subtask_idx,
                                      Put(At(task.subtasks, subtask_idx),
                                          "completed", TRUE)))),
          raised |-> FALSE]

\* the task list after toggle_task's assignments, and whether one of them
\* raised (an index out of range)
Toggled(ts, task_idx, subtask_idx) ==
    IF ~InRange(ts, task_idx) THEN [tasks |-> ts, raised |-> TRUE]
    ELSE LET task == At(ts, task_idx) IN
         IF subtask_idx = None
         THEN [tasks |-> SetAt(ts, task_idx,
                            Put(task, "completed", ~Get(task, "completed", FALSE))),
               raised |-> FALSE]
         ELSE IF "subtasks" \notin DOMAIN task
         THEN [tasks |-> SetAt(ts, task_idx, Put(task, "subtasks", <<>>)),
               raised |-> TRUE]
         ELSE IF ~InRange(task.subtasks, subtask_idx)
         THEN [tasks |-> ts, raised |-> TRUE]
         ELSE LET subtask == At(task.subtasks, subtask_idx) IN
              [tasks |-> SetAt(ts, task_idx, Put(task, "subtasks",
                            SetAt(task.subtasks, subtask_idx,
                                Put(subtask, "completed",
                                    ~Get(subtask, "completed", FALSE))))),
               raised |-> FALSE]

toggle_task(sel, sv) ==
    /\ IF sel = None \/ sel >= Len(index_map) THEN NoChange
       ELSE LET e == RowEntry(index_map, sel)
                r == Toggled(tasks, e[1], e[2])
            IN  IF r.raised THEN tasks' = r.tasks /\ UNCHANGED <<file, index_map>>
                ELSE SaveAndUpdate(r.tasks, sv)
    /\ UNCHANGED <<sort_mode, drag_start_index, issued>>
    /\ UNCHANGED storeVars

\* a delete that takes the last subtask of the parent for the selected one
DeletedLastSubtask(ts, task_idx, subtask_idx) ==
    IF ~Resolves(ts, task_idx, subtask_idx) THEN [tasks |-> ts, raised |-> TRUE]
    ELSE LET task == At(ts, task_idx) IN
         [tasks |-> IF subtask_idx = None THEN Pop(ts, task_idx)
                    ELSE SetAt(ts, task_idx,
                             Put(task, "subtasks",
                                 Pop(task.subtasks, Len(task.subtasks) - 1))),
          raised |-> FALSE]

\* the task list after delete_task's del statement, and whether it raised
Deleted(ts, task_idx, subtask_idx) ==
    IF ~InRange(ts, task_idx) THEN [tasks |-> ts, raised |-> TRUE]
    ELSE LET task == At(ts, task_idx) IN
         IF subtask_idx = None THEN [tasks |-> Pop(ts, task_idx), raised |-> FALSE]
         ELSE IF "subtasks" \notin DOMAIN task THEN [tasks |-> ts, raised |-> FALSE]
         ELSE IF ~InRange(task.subtasks, subtask_idx)
         THEN [tasks |-> ts, raised |-> TRUE]
         ELSE [tasks |-> SetAt(ts, task_idx,
                            Put(task, "subtasks", Pop(task.subtasks, subtask_idx))),
               raised |-> FALSE]

delete_task(sel, sv) ==
    /\ IF sel = None \/ sel >= Len(index_map) THEN NoChange
       ELSE LET e == RowEntry(index_map, sel)
                r == Deleted(tasks, e[1], e[2])
            IN  IF r.raised THEN NoChange ELSE SaveAndUpdate(r.tasks, sv)
    /\ UNCHANGED <<sort_mode, drag_start_index, issued>>
    /\ UNCHANGED storeVars

\* an edit that also clears the completed flag
WithFieldsAndCompletedCleared(d, result) ==
    Put(Put(Put(Put(d, "title", result.title), "priority", result.priority),
            "due_date", result.due_date), "completed", FALSE)

WithFields(d, result) ==
    Put(Put(Put(d, "title", result.title), "priority", result.priority),
        "due_date", result.due_date)

Edited(ts, task_idx, subtask_idx, result) ==
    LET task == At(ts, task_idx) IN
    IF subtask_idx = None THEN SetAt(ts, task_idx, WithFields(task, result))
    ELSE SetAt(ts, task_idx, Put(task, "subtasks",
             SetAt(task.subtasks, subtask_idx,
                 WithFields(At(task.subtasks, subtask_idx), result))))

edit_task(sel, result, sv) ==
    /\ IF sel = None \/ sel >= Len(index_map) THEN NoChange
       ELSE LET e == RowEntry(index_map, sel)
            IN  IF ~Resolves(tasks, e[1], e[2]) \/ ~result.confirmed THEN NoChange
                ELSE SaveAndUpdate(Edited(tasks, e[1], e[2], result), sv)
    /\ UNCHANGED <<sort_mode, drag_start_index, issued>>
    /\ UNCHANGED storeVars

SubtaskAdded(ts, task_idx, result) ==
    LET task == At(ts, task_idx)
        subtask == [title |-> result.title, completed |-> FALSE,
                    priority |-> result.priority, due_date |-> result.due_date]
    IN  SetAt(ts, task_idx,
              Put(task, "subtasks", Append(Get(task, "subtasks", <<>>), subtask)))

add_subtask(sel, result, sv) ==
    /\ IF sel = None \/ sel >= Len(index_map) \/ ~result.confirmed THEN NoChange
       ELSE LET e == RowEntry(index_map, sel)
            IN  IF ~InRange(tasks, e[1]) THEN NoChange
                ELSE SaveAndUpdate(SubtaskAdded(tasks, e[1], result), sv)
    /\ UNCHANGED <<sort_mode, drag_start_index, issued>>
    /\ UNCHANGED storeVars

\* a clear_all that does not wait for the answer
clear_all_unconfirmed(answer, sv) ==
    /\ IF tasks = <<>> THEN NoChange ELSE SaveAndUpdate(<<>>, sv)
    /\ UNCHANGED <<sort_mode, drag_start_index, issued>>
    /\ UNCHANGED storeVars

\* answer is what ConfirmDialog passes to on_confirm
clear_all(answer, sv) ==
    /\ IF tasks = <<>> \/ ~answer THEN NoChange
       ELSE SaveAndUpdate(<<>>, sv)
    /\ UNCHANGED <<sort_mode, drag_start_index, issued>>
    /\ UNCHANGED storeVars

on_drag_start(index) ==
    /\ drag_start_index' =
          IF sort_mode # "none" THEN None
          ELSE IF index >= 0 /\ index < Len(index_map)
               THEN IF At(index_map, index)[2] = None THEN index ELSE None
               ELSE drag_start_index
    /\ UNCHANGED <<tasks, index_map, sort_mode, file, issued>>
    /\ UNCHANGED storeVars

\* on_drag_motion moves the listbox selection only
on_drag_motion(current_index) ==
    /\ UNCHANGED <<tasks, index_map, sort_mode, drag_start_index, file, issued>>
    /\ UNCHANGED storeVars

\* a reorder that inserts at the drop position without the adjustment
ReorderedUnadjusted(ts, start_task_idx, drop_task_idx) ==
    Insert(Pop(ts, start_task_idx), drop_task_idx, At(ts, start_task_idx))

\* task = self.tasks.pop(start_task_idx); the adjustment of drop_task_idx;
\* self.tasks.insert(drop_task_idx, task)
Reordered(ts, start_task_idx, drop_task_idx) ==
    LET task == At(ts, start_task_idx)
        adjusted == IF drop_task_idx > start_task_idx THEN drop_task_idx - 1
                    ELSE drop_task_idx
    IN  Insert(Pop(ts, start_task_idx), adjusted, task)

\* the condition under which on_drag_release looks the two rows up
DropAllowed(drop_list_index) ==
    /\ drop_list_index >= 0
    /\ drop_list_index < Len(index_map)
    /\ drop_list_index # drag_start_index

on_drag_release(drop_list_index, sv) ==
    /\ IF drag_start_index = None
       THEN NoChange /\ UNCHANGED drag_start_index
       ELSE IF ~DropAllowed(drop_list_index)
       THEN NoChange /\ drag_start_index' = None
       ELSE IF ~InRange(index_map, drag_start_index)
       THEN NoChange /\ UNCHANGED drag_start_index           \* IndexError
       ELSE LET start_task_idx == At(index_map, drag_start_index)[1]
                drop == At(index_map, drop_list_index)
            IN  IF drop[2] # None
                THEN NoChange /\ drag_start_index' = None
                ELSE IF ~InRange(tasks, start_task_idx)
                THEN NoChange /\ UNCHANGED drag_start_index   \* IndexError
                ELSE /\ SaveAndUpdate(Reordered(tasks, start_task_idx, drop[1]), sv)
                     /\ drag_start_index' = IF sv = "ok" THEN None
                                            ELSE drag_start_index
    /\ UNCHANGED <<sort_mode, issued>>
    /\ UNCHANGED storeVars

set_sort_mode(mode) ==
    /\ sort_mode' = mode
    /\ index_map' = update_task_list(tasks, mode)
    /\ UNCHANGED <<tasks, drag_start_index, file, issued>>
    /\ UNCHANGED storeVars

(***************************************************************************)
(* The application: TodoApp.__init__ loads the task list from the backing  *)
(* file, then the handlers run in any order, one event at a time.          *)
(***************************************************************************)
DialogResults == {Cancelled, Confirmed("a", "high", "")}

\* the backing file at startup: absent, or holding one task saved earlier
AppFiles == {Absent, Holding(Dump(<<Task(2, "b", "", "2026-01-01")>>))}

InitApp(files) ==
    /\ file \in files
    /\ tasks = load(file).data
    /\ index_map = update_task_list(tasks, "none")
    /\ sort_mode = "none"
    /\ drag_start_index = None
    /\ issued = Ids(tasks)
    /\ backups = <<>>
    /\ tmp = Absent
    /\ pc = "idle"
    /\ pending = <<>>
    /\ clock = 1
    /\ last = [op |-> "init"]

Init == InitApp(AppFiles)

\* the list grows only while it takes fewer than MaxRows rows, and a task is
\* added only while next_id stays within MaxId
RoomFor(result) == result.confirmed => Rows(tasks) < MaxRows

IdsLeft(result) == result.confirmed => next_id(tasks) <= MaxId

\* in Spec no observer records the events
Next ==
    \/ \E result \in DialogResults :
          /\ RoomFor(result) /\ IdsLeft(result)
          /\ add_task(result, "ok") /\ UNCHANGED last
    \/ \E sel \in Selections : toggle_task(sel, "ok") /\ UNCHANGED last
    \/ \E sel \in Selections : delete_task(sel, "ok") /\ UNCHANGED last
    \/ \E sel \in Selections, result \in DialogResults :
          edit_task(sel, result, "ok") /\ UNCHANGED last
    \/ \E sel \in Selections, result \in DialogResults :
          RoomFor(result) /\ add_subtask(sel, result, "ok") /\ UNCHANGED last
    \/ \E answer \in BOOLEAN : clear_all(answer, "ok") /\ UNCHANGED last
    \/ \E index \in NearestRows : on_drag_start(index) /\ UNCHANGED last
    \/ \E index \in NearestRows : on_drag_motion(index) /\ UNCHANGED last
    \/ \E index \in NearestRows : on_drag_release(index, "ok") /\ UNCHANGED last
    \/ \E mode \in SortModes : set_sort_mode(mode) /\ UNCHANGED last

Spec == Init /\ [][Next]_vars

(***************************************************************************)
(* Drag and drop on a stored list: the file holds one of DragLists, the    *)
(* drag handlers, set_sort_mode and delete_task run in any order.          *)
(***************************************************************************)
DragPriorities == <<"low", "high", "", "medium">>

\* task i of a stored list; every second task has a subtask
DragTask(i) ==
    LET task == Task(i, "t", DragPriorities[((i - 1) % 4) + 1], "")
    IN  IF i % 2 = 0 THEN WithSubtasks(task, <<Sub("s", FALSE)>>) ELSE task

DragLists == {[i \in 1..n |-> DragTask(i)] : n \in 0..MaxDragTasks}

InitDrag == InitApp({Holding(Dump(ts)) : ts \in DragLists})

NextDrag ==
    \/ \E index \in NearestRows :
          on_drag_start(index) /\ last' = Event("on_drag_start", index, Cancelled)
    \/ \E index \in NearestRows :
          on_drag_motion(index) /\ last' = Event("on_drag_motion", index, Cancelled)
    \/ \E index \in NearestRows :
          on_drag_release(index, "ok")
          /\ last' = Event("on_drag_release", index, Cancelled)
    \/ \E mode \in SortModes :
          set_sort_mode(mode) /\ last' = Event("set_sort_mode", None, Cancelled)
    \/ \E sel \in Selections :
          delete_task(sel, "ok") /\ last' = Event("delete_task", sel, Cancelled)

SpecDrag == InitDrag /\ [][NextDrag]_vars

(***************************************************************************)
(* The projection on a stored list: the file holds one of SortLists, and   *)
(* set_sort_mode projects it under each sort mode.                         *)
(***************************************************************************)
\* the priorities a stored task can carry: the three known ones, the empty
\* string, and a value the application never writes; "(absent)" stands for a
\* task that has no "priority" key
StoredPriorities == {"high", "medium", "low", "", "urgent", "(absent)"}

SortTask(i, priority) ==
    IF priority = "(absent)"
    THEN [id |-> i, title |-> "t", completed |-> FALSE, due_date |-> ""]
    ELSE Task(i, "t", priority, "")

SortLists ==
    UNION { {[i \in 1..n |-> SortTask(i, ps[i])] : ps \in [1..n -> StoredPriorities]}
            : n \in 0..MaxSortTasks }

InitSort == InitApp({Holding(Dump(ts)) : ts \in SortLists})

NextSort ==
    \E mode \in SortModes :
        set_sort_mode(mode) /\ last' = Event("set_sort_mode", None, Cancelled)

SpecSort == InitSort /\ [][NextSort]_vars

(***************************************************************************)
(* Claims about reordering.                                                *)
(***************************************************************************)
\* a release in sort mode none, with an up-to-date row map, whose source row
\* and drop row are two different top-level task rows
ReorderStep ==
    /\ last'.op = "on_drag_release"
    /\ sort_mode = "none"
    /\ index_map = update_task_list(tasks, "none")
    /\ drag_start_index # None
    /\ InRange(index_map, drag_start_index)
    /\ At(index_map, drag_start_index)[2] = None
    /\ InRange(index_map, last'.row)
    /\ At(index_map, last'.row)[2] = None
    /\ last'.row # drag_start_index

\* the top-level indices s and d of a ReorderStep
SourceIdx == At(index_map, drag_start_index)[1]

DropIdx == At(index_map, last'.row)[1]

\* C1: on tasks [A,B,C] in sort mode none, Reorder(0,2) yields [B,C,A] and
\* Reorder(2,0) yields [C,A,B]; a task dragged onto the last top-level row
\* ends up last.
C1_ReorderExamples ==
    [][ReorderStep =>
          /\ (Len(tasks) = 3 /\ SourceIdx = 0 /\ DropIdx = 2) =>
                tasks' = <<tasks[2], tasks[3], tasks[1]>>
          /\ (Len(tasks) = 3 /\ SourceIdx = 2 /\ DropIdx = 0) =>
                tasks' = <<tasks[3], tasks[1], tasks[2]>>
          /\ DropIdx = Len(tasks) - 1 =>
                tasks'[Len(tasks)] = At(tasks, SourceIdx)]_vars

\* the list with the element at 0-based position s taken out
Without(ts, s) == [k \in 1..(Len(ts) - 1) |-> IF k - 1 < s THEN ts[k] ELSE ts[k + 1]]

\* C2: Reorder(s,d) for distinct valid top-level indices in sort mode none
\* yields the list with the task at s removed and put back at index d when
\* d < s and d-1 when d > s: a permutation of the tasks in which the other
\* tasks keep their relative order and the moved task its subtasks.
C2_ReorderRemoveInsert ==
    [][ReorderStep =>
          LET s == SourceIdx
              d == DropIdx
              e == IF d < s THEN d ELSE d - 1
              rest == Without(tasks, s)
          IN  /\ Len(tasks') = Len(tasks)
              /\ At(tasks', e) = At(tasks, s)
              /\ Get(At(tasks', e), "subtasks", <<>>) = Get(At(tasks, s), "subtasks", <<>>)
              /\ Without(tasks', e) = rest
              /\ \A t \in Range(tasks) :
                    Cardinality({k \in DOMAIN tasks' : tasks'[k] = t})
                        = Cardinality({k \in DOMAIN tasks : tasks[k] = t})]_vars

IdsOf(ts) == [i \in DOMAIN ts |-> ts[i].id]

C2_Witness ==
    /\ last.op = "on_drag_release"
    /\ sort_mode = "none"
    /\ drag_start_index = None
    /\ IdsOf(tasks) = <<3, 2, 1>>
    /\ tasks[2].subtasks = <<Sub("s", FALSE)>>

\* C3: a drag release changes the stored order or writes the file only if
\* the sort mode is none at the release and the source row and the drop row
\* are top-level task rows.
C3_ReleaseGuarded ==
    [][(last'.op = "on_drag_release" /\ (tasks' # tasks \/ file' # file)) =>
          /\ sort_mode = "none"
          /\ InRange(index_map, drag_start_index)
          /\ At(index_map, drag_start_index)[2] = None
          /\ At(index_map, last'.row)[2] = None]_vars

(***************************************************************************)
(* Claims about ids.                                                       *)
(***************************************************************************)
\* C4: the id given to a newly created task was never held by a task before.
C4_IdsNeverReused ==
    [][Len(tasks') = Len(tasks) + 1 => tasks'[Len(tasks')].id \notin issued]_vars

\* C5: next_id is 1 for the empty list and 1 + max(id) otherwise, so it is
\* greater than every id present, and the ids of the tasks are pairwise
\* distinct in every state.
C5_IdsDistinct ==
    /\ \A i, j \in DOMAIN tasks : i # j => tasks[i].id # tasks[j].id
    /\ \A i \in DOMAIN tasks : tasks[i].id < next_id(tasks)
    /\ tasks = <<>> => next_id(tasks) = 1
    /\ next_id(<<[id |-> 5], [id |-> 2]>>) = 6

C5_Witness ==
    /\ Len(tasks) = 2
    /\ IdsOf(tasks) = <<3, 2>>
    /\ "subtasks" \in DOMAIN tasks[2]

(***************************************************************************)
(* Claims about the projection.                                            *)
(***************************************************************************)
\* the stored indices of the top-level rows, in the order of the projection
RECURSIVE TopOrder(_)
TopOrder(map) ==
    IF map = <<>> THEN <<>>
    ELSE IF Head(map)[2] = None THEN <<Head(map)[1]>> \o TopOrder(Tail(map))
    ELSE TopOrder(Tail(map))

\* the rank the claim gives a task: high, medium, low, and everything else
Rank(task) ==
    IF "priority" \notin DOMAIN task THEN 3
    ELSE IF task.priority = "high" THEN 0
    ELSE IF task.priority = "medium" THEN 1
    ELSE IF task.priority = "low" THEN 2
    ELSE 3

PrioritiesOf(ts) == [i \in DOMAIN ts |-> Get(ts[i], "priority", "(absent)")]

\* C10: in sort mode priority the projection holds every top-level task once,
\* ordered by rank high < medium < low < unset, a priority that is none of
\* the three (or is missing) ranking as unset, and tasks of equal rank in
\* their stored order; [low, high, low, high] projects to the two high tasks
\* in stored order, then the two low ones.
C10_PriorityOrder ==
    sort_mode = "priority" =>
        LET order == TopOrder(index_map) IN
        /\ Len(order) = Len(tasks)
        /\ Range(order) = 0..(Len(tasks) - 1)
        /\ \A a, b \in DOMAIN order :
              a < b =>
                 \/ Rank(At(tasks, order[a])) < Rank(At(tasks, order[b]))
                 \/ /\ Rank(At(tasks, order[a])) = Rank(At(tasks, order[b]))
                    /\ order[a] < order[b]
        /\ PrioritiesOf(tasks) = <<"low", "high", "low", "high">> =>
              order = <<1, 3, 0, 2>>

C10_Witness ==
    /\ sort_mode = "priority"
    /\ PrioritiesOf(tasks) = <<"low", "high", "low", "high">>
    /\ TopOrder(index_map) = <<1, 3, 0, 2>>

(***************************************************************************)
(* Claims about the store.                                                 *)
(***************************************************************************)
\* the file holds text that json.load reads as an array
HoldsArray(f) ==
    /\ f.exists /\ f.readable /\ ValidUtf8(f.bytes)
    /\ JsonLoads(f.bytes).ok /\ JsonLoads(f.bytes).kind = "list"

\* the file can be opened and holds content that is not JSON (text that does
\* not parse, or bytes that are no UTF-8 text), or JSON that is no array
HoldsCorrupt(f) == f.exists /\ f.readable /\ ~HoldsArray(f)

\* C6: a load that directly follows a successful save(tasks) returns a
\* sequence equal to tasks: the same tasks in the same order, each with the
\* same subtasks in the same order.
C6_RoundTrip ==
    (last.op = "load" /\ last.after_save) =>
        (~last.result.raised /\ last.result.data = last.saved)

C6_Witness ==
    /\ last.op = "load"
    /\ last.after_save
    /\ Len(last.saved) = 2
    /\ Len(last.saved[1].subtasks) = 2
    /\ last.result.data = last.saved

\* C7: load never raises to its caller, whatever the backing file is.
C7_LoadNeverRaises == last.op = "load" => ~last.result.raised

\* C8: when the backing file holds non-JSON content or JSON that is no array,
\* load returns the empty sequence without raising and leaves the backing
\* file as it was; when the copy succeeds the one backup file it creates or
\* changes is the one named by the current time, and its content is the
\* corrupt content; when the copy fails load still returns the empty
\* sequence.
C8_CorruptionRecovery ==
    [][(last'.op = "load" /\ HoldsCorrupt(file)) =>
          /\ ~last'.result.raised
          /\ last'.result.data = <<>>
          /\ file' = file
          /\ last'.copy = "ok" =>
                /\ last'.now \in DOMAIN backups'
                /\ backups'[last'.now] = file.bytes
                /\ \A t \in DOMAIN backups' \ {last'.now} :
                      t \in DOMAIN backups /\ backups'[t] = backups[t]
                /\ DOMAIN backups \subseteq DOMAIN backups']_vars

\* C9: when the process stops inside a save over a file that held a valid
\* array, the target path holds the complete previous content or the complete
\* new content.
C9_SaveAtomic ==
    (last.op = "crash" /\ HoldsArray(last.old)) =>
        (file = last.old \/ file = Holding(Dump(last.saved)))

(***************************************************************************)
(* The projection of tasks that carry due dates and subtasks: the file     *)
(* holds one of ViewLists, and set_sort_mode projects it under each sort   *)
(* mode.                                                                   *)
(***************************************************************************)
\* the due dates a stored task can carry; "(absent)" stands for a task that
\* has no "due_date" key
StoredDates == {"2025-12-31", "2026-01-01", "2026-02-01", "", "(absent)"}

\* task i of a stored list: it has i % 3 subtasks, and its priority goes by
\* its position
ViewTask(i, due_date) ==
    LET priority == DragPriorities[((i - 1) % 4) + 1]
        task == IF due_date = "(absent)"
                THEN [id |-> i, title |-> "t", completed |-> FALSE,
                      priority |-> priority]
                ELSE Task(i, "t", priority, due_date)
        subs == [j \in 1..(i % 3) |-> Sub(IF j = 1 THEN "s1" ELSE "s2", FALSE)]
    IN  IF subs = <<>> THEN task ELSE WithSubtasks(task, subs)

ViewLists ==
    UNION { {[i \in 1..n |-> ViewTask(i, ds[i])] : ds \in [1..n -> StoredDates]}
            : n \in 0..MaxSortTasks }

InitView == InitApp({Holding(Dump(ts)) : ts \in ViewLists})

NextView ==
    \E mode \in SortModes :
        set_sort_mode(mode) /\ last' = Event("set_sort_mode", None, Cancelled)

SpecView == InitView /\ [][NextView]_vars

(***************************************************************************)
(* Claims about the projection under due dates and with subtasks.          *)
(***************************************************************************)
\* the day a due date names, as a number; a task without a due date (empty
\* or missing) counts as later than every date
DueDay(task) ==
    LET d == Get(task, "due_date", "")
    IN  CASE d = ""           -> 99999999
          [] d = "2025-12-31" -> 20251231
          [] d = "2026-01-01" -> 20260101
          [] d = "2026-02-01" -> 20260201

DatesOf(ts) == [i \in DOMAIN ts |-> Get(ts[i], "due_date", "(absent)")]

\* C11: in sort mode due_date the projection holds every top-level task
\* once, in ascending order of due date, the tasks with an empty or missing
\* due date after every dated task, and tasks of equal due date (the undated
\* ones among them) in their stored order; the due dates
\* ["2026-02-01", "", "2026-01-01"] project to stored indices [2, 0, 1].
C11_DueDateOrder ==
    sort_mode = "due_date" =>
        LET order == TopOrder(index_map) IN
        /\ Len(order) = Len(tasks)
        /\ Range(order) = 0..(Len(tasks) - 1)
        /\ \A a, b \in DOMAIN order :
              a < b =>
                 \/ DueDay(At(tasks, order[a])) < DueDay(At(tasks, order[b]))
                 \/ /\ DueDay(At(tasks, order[a])) = DueDay(At(tasks, order[b]))
                    /\ order[a] < order[b]
        /\ DatesOf(tasks) = <<"2026-02-01", "", "2026-01-01">> =>
              order = <<2, 0, 1>>

C11_Witness ==
    /\ sort_mode = "due_date"
    /\ DatesOf(tasks) = <<"2026-02-01", "", "2026-01-01">>
    /\ TopOrder(index_map) = <<2, 0, 1>>

\* the subtasks of the task at stored index t
SubtasksAt(t) == Get(At(tasks, t), "subtasks", <<>>)

\* the number of rows that hold the entry e
RowsHolding(e) == Cardinality({p \in DOMAIN index_map : index_map[p] = e})

\* C12: under every sort mode the row sequence holds one row for each
\* top-level task and one row for each subtask and no other row, and the row
\* of a subtask directly follows the row of the subtask stored before it, or
\* the row of its task when it is the first: a task's subtask rows follow
\* the task's row in stored order, ahead of the next task's row.
C12_SubtaskCohesion ==
    /\ \A t \in 0..(Len(tasks) - 1) :
          /\ RowsHolding(<<t, None>>) = 1
          /\ \A j \in 0..(Len(SubtasksAt(t)) - 1) : RowsHolding(<<t, j>>) = 1
    /\ \A p \in DOMAIN index_map :
          LET t == index_map[p][1]
              j == index_map[p][2]
          IN  /\ InRange(tasks, t)
              /\ j # None =>
                    /\ InRange(SubtasksAt(t), j)
                    /\ p > 1
                    /\ index_map[p - 1] = <<t, IF j = 0 THEN None ELSE j - 1>>

C12_Witness ==
    /\ sort_mode = "priority"
    /\ Len(tasks) = 3
    /\ index_map = <<<<1, None>>, <<1, 0>>, <<1, 1>>, <<0, None>>, <<0, 0>>, <<2, None>>>>

(***************************************************************************)
(* The selection handlers on a stored list: the file holds one of          *)
(* OpsLists, the view is in any sort mode, and up to MaxOps events follow, *)
(* each recorded by an observer.                                           *)
(***************************************************************************)
\* how a handler ends: "returns" (an early return, nothing done), "raises"
\* (an exception leaves it before save is called) or "saves" (it reaches the
\* call of task_manager.save)
HandlerOutcome(op, sel, result) ==
    IF op = "add_task" THEN (IF result.confirmed THEN "saves" ELSE "returns")
    ELSE IF sel = None \/ sel >= Len(index_map) THEN "returns"
    ELSE LET e == RowEntry(index_map, sel) IN
         CASE op = "toggle_task" ->
                 IF Toggled(tasks, e[1], e[2]).raised THEN "raises" ELSE "saves"
           [] op = "delete_task" ->
                 IF Deleted(tasks, e[1], e[2]).raised THEN "raises" ELSE "saves"
           [] op = "edit_task" ->
                 IF ~Resolves(tasks, e[1], e[2]) THEN "raises"
                 ELSE IF ~result.confirmed THEN "returns" ELSE "saves"
           [] op = "add_subtask" ->
                 IF ~result.confirmed THEN "returns"
                 ELSE IF ~InRange(tasks, e[1]) THEN "raises" ELSE "saves"

\* the observer's record of an event: the handler, the selected row, the
\* result of the dialog, how the handler ended (with the outcome of save when
\* it was called), the task list before the event and the number of events
\* so far.  sv matters only when save is called.
Observed(op, sel, result, sv) ==
    /\ last.n < MaxOps
    /\ HandlerOutcome(op, sel, result) # "saves" => sv = "ok"
    /\ last' = [op |-> op, row |-> sel, result |-> result,
                outcome |-> IF HandlerOutcome(op, sel, result) = "saves"
                            THEN "save_" \o sv
                            ELSE HandlerOutcome(op, sel, result),
                before |-> tasks, n |-> last.n + 1]

OpsLists ==
    { <<WithSubtasks(Task(1, "x", "low", "2026-02-01"),
                     <<Sub("s1", FALSE), Sub("s2", TRUE)>>),
        Task(2, "y", "high", "2026-01-01")>>,
      <<Task(1, "x", "low", ""),
        WithSubtasks(Task(2, "y", "high", ""), <<Sub("s1", FALSE)>>),
        Task(3, "z", "medium", "")>> }

\* the application after it loaded the list and the view was put in a sort
\* mode
InitLists(lists) ==
    /\ file \in {Holding(Dump(ts)) : ts \in lists}
    /\ tasks = load(file).data
    /\ sort_mode \in SortModes
    /\ index_map = update_task_list(tasks, sort_mode)
    /\ drag_start_index = None
    /\ issued = Ids(tasks)
    /\ backups = <<>>
    /\ tmp = Absent
    /\ pc = "idle"
    /\ pending = <<>>
    /\ clock = 1
    /\ last = [op |-> "init", n |-> 0]

InitOps == InitLists(OpsLists)

\* what the dialogs of edit_task and add_subtask return in these events
EditResult == Confirmed("e", "medium", "2025-12-31")

SubtaskResult == Confirmed("n", "", "")

NextOps ==
    \/ \E sel \in Selections :
          Observed("toggle_task", sel, Cancelled, "ok") /\ toggle_task(sel, "ok")
    \/ \E sel \in Selections :
          Observed("delete_task", sel, Cancelled, "ok") /\ delete_task(sel, "ok")
    \/ \E sel \in Selections :
          Observed("edit_task", sel, EditResult, "ok")
          /\ edit_task(sel, EditResult, "ok")
    \/ \E sel \in Selections :
          Observed("add_subtask", sel, SubtaskResult, "ok")
          /\ add_subtask(sel, SubtaskResult, "ok")

SpecOps == InitOps /\ [][NextOps]_vars

(***************************************************************************)
(* Claims about the selection handlers.  In SpecOps every save succeeds,   *)
(* so the row map is the projection of the task list in every state.       *)
(***************************************************************************)
\* an event of handler op on a selected row
RowStep(op) == last'.op = op /\ last'.row # None

\* the stored task index and the subtask index (None for a task row) that
\* the row map gives for the selected row
TargetTask == At(index_map, last'.row)[1]

TargetSub == At(index_map, last'.row)[2]

\* every task but the one at 0-based index t is the same before and after
OthersUnchanged(t) ==
    /\ Len(tasks') = Len(tasks)
    /\ \A i \in DOMAIN tasks : i # t + 1 => tasks'[i] = tasks[i]

\* C13: toggle, edit, delete and add_subtask on a selected row change the
\* task whose stored index the row map gives for that row, or the subtask of
\* it that the row map gives, and nothing else, whatever the sort mode; after
\* the event the row map is the projection of the new list, and each of its
\* rows names a task or subtask the list holds.
C13_RowResolution ==
    [][(\E op \in {"toggle_task", "edit_task", "delete_task", "add_subtask"} :
            RowStep(op)) =>
          LET t == TargetTask
              j == TargetSub
              op == last'.op
          IN  /\ IF op = "delete_task" /\ j = None
                 THEN tasks' = Without(tasks, t)
                 ELSE /\ OthersUnchanged(t)
                      /\ op # "edit_task" => tasks'[t + 1] # tasks[t + 1]
                      /\ op = "edit_task" =>
                            LET e == IF j = None THEN tasks'[t + 1]
                                     ELSE At(tasks'[t + 1].subtasks, j)
                            IN  e.title = last'.result.title
                      /\ op = "add_subtask" =>
                            Len(tasks'[t + 1].subtasks) = Len(SubtasksAt(t)) + 1
                      /\ (j # None /\ op \in {"toggle_task", "edit_task"}) =>
                            /\ Len(tasks'[t + 1].subtasks) = Len(SubtasksAt(t))
                            /\ \A k \in DOMAIN SubtasksAt(t) :
                                  k # j + 1 =>
                                     tasks'[t + 1].subtasks[k] = SubtasksAt(t)[k]
                      /\ (j # None /\ op = "delete_task") =>
                            tasks'[t + 1].subtasks = Without(SubtasksAt(t), j)
              /\ index_map' = update_task_list(tasks', sort_mode')
              /\ \A p \in DOMAIN index_map' :
                    Resolves(tasks', index_map'[p][1], index_map'[p][2])]_vars

\* in priority mode row 0 showed the task stored second, and the toggle of
\* row 0 completed that task and not the one stored first
C13_Witness ==
    /\ last.op = "toggle_task"
    /\ last.row = 0
    /\ sort_mode = "priority"
    /\ Len(tasks) = 2
    /\ index_map[1] = <<1, None>>
    /\ tasks[2].completed
    /\ ~tasks[1].completed
    /\ ~last.before[2].completed

\* C14: delete on a task row removes the task with all its subtasks (its row
\* and theirs leave the row sequence) and leaves the other tasks as they
\* were, in their order; delete on a subtask row removes that subtask, the
\* later subtasks of the parent moving down by one, and leaves the parent's
\* other keys and every other task as they were.
C14_CascadeDelete ==
    [][RowStep("delete_task") =>
          LET t == TargetTask
              j == TargetSub
          IN  IF j = None
              THEN /\ tasks' = Without(tasks, t)
                   /\ Len(index_map') = Len(index_map) - (1 + Len(SubtasksAt(t)))
              ELSE /\ OthersUnchanged(t)
                   /\ DOMAIN tasks'[t + 1] = DOMAIN tasks[t + 1]
                   /\ \A key \in DOMAIN tasks[t + 1] \ {"subtasks"} :
                         tasks'[t + 1][key] = tasks[t + 1][key]
                   /\ tasks'[t + 1].subtasks = Without(SubtasksAt(t), j)
                   /\ Len(index_map') = Len(index_map) - 1]_vars

\* the first of two subtasks was deleted: the second took its place
C14_Witness ==
    /\ last.op = "delete_task"
    /\ Len(last.before) = 2
    /\ Len(last.before[1].subtasks) = 2
    /\ Len(tasks) = 2
    /\ tasks[1].subtasks = <<last.before[1].subtasks[2]>>
    /\ tasks[1].subtasks # <<last.before[1].subtasks[1]>>

\* C15: toggle negates the completed flag of the task or subtask of the
\* selected row and changes nothing else (not a subtask of a toggled task,
\* not the parent of a toggled subtask, no other field, no other task, not
\* the order); a second toggle of the same row gives back the task list of
\* before the first.
C15_ToggleInvolution ==
    [][RowStep("toggle_task") =>
          LET t == TargetTask
              j == TargetSub
          IN  /\ OthersUnchanged(t)
              /\ IF j = None
                 THEN tasks'[t + 1] = [tasks[t + 1] EXCEPT !.completed = ~@]
                 ELSE tasks'[t + 1] =
                         [tasks[t + 1] EXCEPT
                             !.subtasks[j + 1].completed = ~@]
              /\ (last.op = "toggle_task" /\ last.row = last'.row) =>
                    tasks' = last.before]_vars

\* a row was toggled twice and the stored list is back
C15_Witness ==
    /\ last.op = "toggle_task"
    /\ last.row # None
    /\ last.n = 2
    /\ tasks \in OpsLists
    /\ last.before # tasks

\* C16: a confirmed edit gives the task or subtask of the selected row the
\* title, priority and due date of the dialog and changes nothing else: not
\* its completed flag, its id, its subtasks or its position, and no other
\* task or subtask.
C16_EditFrame ==
    [][(RowStep("edit_task") /\ last'.result.confirmed) =>
          LET t == TargetTask
              j == TargetSub
              r == last'.result
          IN  /\ OthersUnchanged(t)
              /\ IF j = None
                 THEN tasks'[t + 1] =
                         [tasks[t + 1] EXCEPT !.title = r.title,
                                              !.priority = r.priority,
                                              !.due_date = r.due_date]
                 ELSE tasks'[t + 1] =
                         [tasks[t + 1] EXCEPT
                             !.subtasks[j + 1].title = r.title,
                             !.subtasks[j + 1].priority = r.priority,
                             !.subtasks[j + 1].due_date = r.due_date]]_vars

\* a completed subtask was edited and is still completed
C16_Witness ==
    /\ last.op = "edit_task"
    /\ Len(tasks) = 2
    /\ tasks[1].id = 1
    /\ Len(tasks[1].subtasks) = 2
    /\ tasks[1].subtasks[2] = [title |-> "e", completed |-> TRUE,
                                priority |-> "medium", due_date |-> "2025-12-31"]
    /\ last.before[1].subtasks[2].title = "s2"

(***************************************************************************)
(* TaskEditDialog.  The text of an entry field is a sequence of            *)
(* characters.  on_ok strips the title and the date, checks the date with  *)
(* datetime.strptime(due_date, "%Y-%m-%d") and sets the result only when  *)
(* the title is not empty; otherwise the dialog stays open.                *)
(***************************************************************************)
RECURSIVE LStrip(_)
LStrip(cs) == IF cs # <<>> /\ Head(cs) = " " THEN LStrip(Tail(cs)) ELSE cs

RECURSIVE RStrip(_)
RStrip(cs) ==
    IF cs # <<>> /\ cs[Len(cs)] = " " THEN RStrip(SubSeq(cs, 1, Len(cs) - 1))
    ELSE cs

\* str.strip()
strip(cs) == RStrip(LStrip(cs))

DigitValue ==
    [c \in {"0", "1", "2", "3", "4", "5", "6", "7", "8", "9"} |->
        CASE c = "0" -> 0 [] c = "1" -> 1 [] c = "2" -> 2 [] c = "3" -> 3
          [] c = "4" -> 4 [] c = "5" -> 5 [] c = "6" -> 6 [] c = "7" -> 7
          [] c = "8" -> 8 [] c = "9" -> 9]

IsDigits(cs) == \A i \in DOMAIN cs : cs[i] \in DOMAIN DigitValue

RECURSIVE Number(_)
Number(cs) ==
    IF cs = <<>> THEN 0
    ELSE 10 * Number(SubSeq(cs, 1, Len(cs) - 1)) + DigitValue[cs[Len(cs)]]

\* the directive %m matches 1[0-2], 0[1-9] or [1-9]
MatchesMonth(cs) ==
    /\ Len(cs) \in {1, 2}
    /\ IsDigits(cs)
    /\ Number(cs) \in 1..12
    /\ Len(cs) = 1 => cs[1] # "0"

\* the directive %d matches 3[0-1], [1-2]\d, 0[1-9], [1-9] or a space and
\* [1-9]
MatchesDay(cs) ==
    \/ /\ Len(cs) \in {1, 2}
       /\ IsDigits(cs)
       /\ Number(cs) \in 1..31
       /\ Len(cs) = 1 => cs[1] # "0"
    \/ /\ Len(cs) = 2
       /\ cs[1] = " "
       /\ IsDigits(<<cs[2]>>)
       /\ cs[2] # "0"

DaysInMonth(year, month) ==
    IF month = 2
    THEN (IF year % 4 = 0 /\ (year % 100 # 0 \/ year % 400 = 0) THEN 29 ELSE 28)
    ELSE IF month \in {4, 6, 9, 11} THEN 30 ELSE 31

\* whether datetime.strptime(cs, "%Y-%m-%d") returns: the whole text matches
\* four digits, "-", a month, "-", a day, and they name a date
strptime(cs) ==
    \E lm \in {1, 2}, ld \in {1, 2} :
        /\ Len(cs) = 6 + lm + ld
        /\ IsDigits(SubSeq(cs, 1, 4))
        /\ cs[5] = "-"
        /\ MatchesMonth(SubSeq(cs, 6, 5 + lm))
        /\ cs[6 + lm] = "-"
        /\ MatchesDay(SubSeq(cs, 7 + lm, 6 + lm + ld))
        /\ Number(SubSeq(cs, 1, 4)) >= 1
        /\ Number(LStrip(SubSeq(cs, 7 + lm, 6 + lm + ld)))
              <= DaysInMonth(Number(SubSeq(cs, 1, 4)),
                             Number(SubSeq(cs, 6, 5 + lm)))

\* the texts a user types in these events
TextA == <<"a">>

TextPaddedA == <<" ", "a", " ">>

TextBlank == <<" ", " ">>

TextDate == <<"2", "0", "2", "6", "-", "0", "1", "-", "0", "1">>

TextPaddedDate == <<" ", "2", "0", "2", "6", "-", "0", "2", "-", "0", "1">>

TextShortDate == <<"2", "0", "2", "6", "-", "9", "-", "1">>

TextNoDate == <<"s", "o", "o", "n">>

TextNoDay == <<"2", "0", "2", "6", "-", "0", "2", "-", "3", "0">>

\* the Python string of a text that on_ok accepts
Str(cs) ==
    CASE cs = <<>>                 -> ""
      [] cs = TextA                -> "a"
      [] cs = TextDate             -> "2026-01-01"
      [] cs = strip(TextPaddedDate) -> "2026-02-01"
      [] cs = TextShortDate        -> "2026-9-1"

\* on_ok: whether the dialog closes, and the result it has set
on_ok(title_entry, priority_var, date_entry) ==
    LET title == strip(title_entry)
        due_date == strip(date_entry)
    IN  IF due_date # <<>> /\ ~strptime(due_date)
        THEN [closed |-> FALSE, result |-> Cancelled]
        ELSE IF title # <<>>
        THEN [closed |-> TRUE,
              result |-> Confirmed(Str(title),
                                   IF priority_var # "none" THEN priority_var
                                   ELSE "",
                                   Str(due_date))]
        ELSE [closed |-> FALSE, result |-> Cancelled]

\* what the user does with a dialog: fill the fields and press OK (ok), or
\* press Cancel
Entries ==
    [title : {TextA, TextPaddedA, <<>>, TextBlank},
     priority : {"none", "high"},
     date : {<<>>, TextDate, TextPaddedDate, TextShortDate, TextNoDate, TextNoDay},
     ok : BOOLEAN]

\* get_result: the result of on_ok when it closed the dialog; when on_ok left
\* the dialog open the user closes it with Cancel, and on_cancel sets None
get_result(entry) ==
    LET r == on_ok(entry.title, entry.priority, entry.date)
    IN  IF entry.ok /\ r.closed THEN r.result ELSE Cancelled

(***************************************************************************)
(* One dialog on a stored list: the file holds one of DialogLists, the     *)
(* view is in any sort mode, and one of add_task, add_subtask and          *)
(* edit_task runs with what the user did in its dialog.                    *)
(***************************************************************************)
DialogLists ==
    { <<>>,
      <<Task(3, "z", "", "")>>,
      <<WithSubtasks(Task(1, "x", "low", "2026-02-01"), <<Sub("s1", TRUE)>>),
        Task(4, "y", "high", "2026-01-01")>> }

InitDialog == InitLists(DialogLists)

\* the observer's record of the one event, with what the user entered
ObservedEntry(op, sel, entry, result) ==
    last' = [op |-> op, row |-> sel, entry |-> entry, result |-> result,
             before |-> tasks, n |-> 1]

\* no event has happened yet
Unobserved == last.op = "init"

NextDialog ==
    \/ /\ Unobserved
       /\ \E entry \in Entries : \E result \in {get_result(entry)} :
             ObservedEntry("add_task", None, entry, result)
             /\ add_task(result, "ok")
    \/ /\ Unobserved
       /\ \E sel \in Selections, entry \in Entries :
             \E result \in {get_result(entry)} :
                ObservedEntry("add_subtask", sel, entry, result)
                /\ add_subtask(sel, result, "ok")
    \/ /\ Unobserved
       /\ \E sel \in Selections, entry \in Entries :
             \E result \in {get_result(entry)} :
                ObservedEntry("edit_task", sel, entry, result)
                /\ edit_task(sel, result, "ok")

SpecDialog == InitDialog /\ [][NextDialog]_vars

(***************************************************************************)
(* Claims about the dialogs.                                               *)
(***************************************************************************)
\* C17: a confirmed add appends one task to the end of the list, with the
\* id next_id gives, completed false, no subtasks, and the title, priority
\* and due date of the dialog; the tasks that were there keep their content
\* and their places, in every sort mode, and the view gets one more row.
C17_AddAppends ==
    [][(last'.op = "add_task" /\ last'.result.confirmed) =>
          LET r == last'.result IN
          /\ tasks' = Append(tasks, [id |-> next_id(tasks), title |-> r.title,
                                     completed |-> FALSE, priority |-> r.priority,
                                     due_date |-> r.due_date])
          /\ Len(index_map') = Len(index_map) + 1]_vars

\* a high task was added in priority mode: it is stored last and shown second
C17_Witness ==
    /\ last.op = "add_task"
    /\ sort_mode = "priority"
    /\ Len(tasks) = 3
    /\ SubSeq(tasks, 1, 2) = last.before
    /\ tasks[3] = [id |-> 5, title |-> "a", completed |-> FALSE,
                   priority |-> "high", due_date |-> "2026-02-01"]
    /\ TopOrder(index_map) = <<1, 2, 0>>

\* the text without the spaces around it
Trimmed(cs) ==
    LET inked == {i \in DOMAIN cs : cs[i] # " "}
    IN  IF inked = {} THEN <<>>
        ELSE SubSeq(cs, CHOOSE i \in inked : \A k \in inked : i <= k,
                        CHOOSE i \in inked : \A k \in inked : k <= i)

\* the text has the form YYYY-MM-DD: four digits, two digits, two digits
IsYMD(cs) ==
    /\ Len(cs) = 10
    /\ \A i \in {1, 2, 3, 4, 6, 7, 9, 10} :
          cs[i] \in {"0", "1", "2", "3", "4", "5", "6", "7", "8", "9"}
    /\ cs[5] = "-"
    /\ cs[8] = "-"

\* the input the claim calls invalid: an empty title after trimming, or a
\* due date that is not empty and not of the form YYYY-MM-DD
InvalidInput(entry) ==
    \/ Trimmed(entry.title) = <<>>
    \/ Trimmed(entry.date) # <<>> /\ ~IsYMD(Trimmed(entry.date))

\* C18: when the dialog of add_task, add_subtask or edit_task is cancelled,
\* or the input is invalid, the task list and the file are as before.
C18_RejectedInputNoChange ==
    [][(/\ last'.op \in {"add_task", "add_subtask", "edit_task"}
        /\ ~last'.entry.ok \/ InvalidInput(last'.entry)) =>
          /\ tasks' = tasks
          /\ file' = file]_vars

\* what pressing OK does with the entry of the observed event
Pressed == on_ok(last.entry.title, last.entry.priority, last.entry.date)

\* C23: the dialog ends with a confirmed record or with none.  OK closes it
\* only with a record whose title is the trimmed entry and not empty, whose
\* priority is "", "low", "medium" or "high", and whose due date is empty or
\* of the form YYYY-MM-DD; with an empty title, or a due date of another
\* form, OK leaves the dialog open and sets no result.
C23_ConfirmedWellFormed ==
    last.op \in {"add_task", "add_subtask", "edit_task"} =>
       /\ last.result = IF last.entry.ok /\ Pressed.closed THEN Pressed.result
                        ELSE Cancelled
       /\ Pressed.closed =>
             /\ Pressed.result.confirmed
             /\ Trimmed(last.entry.title) # <<>>
             /\ Pressed.result.title = Str(Trimmed(last.entry.title))
             /\ Pressed.result.priority \in {"", "low", "medium", "high"}
             /\ \/ Trimmed(last.entry.date) = <<>> /\ Pressed.result.due_date = ""
                \/ IsYMD(Trimmed(last.entry.date))
       /\ InvalidInput(last.entry) =>
             /\ ~Pressed.closed
             /\ ~Pressed.result.confirmed

(***************************************************************************)
(* Failing saves: the file holds one of FailLists and up to MaxOps events  *)
(* follow, in each of which task_manager.save, when the handler calls it,  *)
(* succeeds or raises.                                                     *)
(***************************************************************************)
FailLists ==
    { <<WithSubtasks(Task(1, "x", "low", ""), <<Sub("s1", FALSE)>>),
        Task(2, "y", "high", "")>> }

InitFail == InitLists(FailLists)

NextFail ==
    \/ \E sel \in Selections, sv \in SaveOutcomes :
          Observed("toggle_task", sel, Cancelled, sv) /\ toggle_task(sel, sv)
    \/ \E sel \in Selections, sv \in SaveOutcomes :
          Observed("delete_task", sel, Cancelled, sv) /\ delete_task(sel, sv)
    \/ \E sel \in Selections, sv \in SaveOutcomes :
          Observed("edit_task", sel, EditResult, sv)
          /\ edit_task(sel, EditResult, sv)
    \/ \E sel \in Selections, sv \in SaveOutcomes :
          Observed("add_subtask", sel, SubtaskResult, sv)
          /\ add_subtask(sel, SubtaskResult, sv)
    \/ \E sv \in SaveOutcomes :
          Observed("add_task", None, EditResult, sv) /\ add_task(EditResult, sv)

SpecFail == InitFail /\ [][NextFail]_vars

(***************************************************************************)
(* Claims about failing saves and stale rows.                              *)
(***************************************************************************)
\* the handler of the event called save and save raised
SaveFailed == last'.outcome \in {"save_raises", "save_torn"}

\* C19: when save raises inside a handler, the exception leaves the handler
\* (nothing after the save runs: the row map is not rebuilt), the change the
\* handler made to the task list stays, and the file holds what it held
\* before, the content of the last successful save.
C19_SaveFailureKeepsFile ==
    [][SaveFailed =>
          /\ index_map' = index_map
          /\ last'.op \in {"toggle_task", "add_subtask"} => tasks' # tasks
          /\ last'.op = "add_task" => Len(tasks') = Len(tasks) + 1
          /\ (last'.op = "delete_task" /\ TargetSub = None) =>
                Len(tasks') = Len(tasks) - 1
          /\ file' = file]_vars

\* C20: toggle, delete, edit and add_subtask on a selected row whose entry
\* in the row map names a task index outside the task list, or a subtask
\* index outside the subtasks of the parent, return without raising, change
\* nothing and save nothing.
C20_StaleRowNoOp ==
    [][(/\ \E op \in {"toggle_task", "delete_task", "edit_task", "add_subtask"} :
              RowStep(op)
        /\ ~Resolves(tasks, TargetTask, TargetSub)) =>
          /\ last'.outcome = "returns"
          /\ tasks' = tasks
          /\ file' = file]_vars

(***************************************************************************)
(* The whole application under observation: the file holds one of          *)
(* IdleFiles, and up to MaxOps events of any handler follow, in each of    *)
(* which task_manager.save, when the handler calls it, succeeds or raises. *)
(* Every state is one in which the application waits for the next event.   *)
(***************************************************************************)
\* what ConfirmDialog passes to on_confirm: True (Yes, Return) or False (No,
\* Escape); clear_all opens no ConfirmDialog for an empty list, and then
\* there is no answer
Answers(ts) == IF ts = <<>> THEN {None} ELSE BOOLEAN

\* how a handler ends, for every handler of the application
EventOutcome(op, arg, result) ==
    CASE op \in {"add_task", "toggle_task", "delete_task", "edit_task",
                 "add_subtask"} -> HandlerOutcome(op, arg, result)
      [] op = "clear_all" -> IF tasks = <<>> \/ ~arg THEN "returns" ELSE "saves"
      [] op = "on_drag_release" ->
            IF drag_start_index = None \/ ~DropAllowed(arg) THEN "returns"
            ELSE IF ~InRange(index_map, drag_start_index) THEN "raises"
            ELSE IF At(index_map, arg)[2] # None THEN "returns"
            ELSE IF ~InRange(tasks, At(index_map, drag_start_index)[1])
                 THEN "raises"
            ELSE "saves"
      [] OTHER -> "returns"

\* the observer's record of an event: the handler, its input (the selected
\* or nearest row, the answer, the mode), the result of the dialog, how the
\* handler ended, the number of events so far, whether some handler has
\* completed a mutation (it saved and rebuilt the view) and whether some
\* save has raised
IdleEvent(op, arg, result, sv) ==
    /\ last.n < MaxOps
    /\ EventOutcome(op, arg, result) # "saves" => sv = "ok"
    /\ last' = [op |-> op, row |-> arg, result |-> result,
                outcome |-> IF EventOutcome(op, arg, result) = "saves"
                            THEN "save_" \o sv
                            ELSE EventOutcome(op, arg, result),
                n |-> last.n + 1,
                mutated |-> \/ last.mutated
                            \/ EventOutcome(op, arg, result) = "saves" /\ sv = "ok",
                failed |-> \/ last.failed
                           \/ EventOutcome(op, arg, result) = "saves" /\ sv # "ok"]

\* the backing file at startup: text that is no JSON, or a list saved earlier
IdleFiles == {Holding(<<Tok("junk")>>)} \cup {Holding(Dump(ts)) : ts \in FailLists}

InitIdle ==
    /\ file \in IdleFiles
    /\ tasks = load(file).data
    /\ index_map = update_task_list(tasks, "none")
    /\ sort_mode = "none"
    /\ drag_start_index = None
    /\ issued = Ids(tasks)
    /\ backups = <<>>
    /\ tmp = Absent
    /\ pc = "idle"
    /\ pending = <<>>
    /\ clock = 1
    /\ last = [op |-> "init", n |-> 0, mutated |-> FALSE, failed |-> FALSE]

NextIdle ==
    \/ \E sv \in SaveOutcomes :
          IdleEvent("add_task", None, EditResult, sv) /\ add_task(EditResult, sv)
    \/ \E sel \in Selections, sv \in SaveOutcomes :
          IdleEvent("toggle_task", sel, Cancelled, sv) /\ toggle_task(sel, sv)
    \/ \E sel \in Selections, sv \in SaveOutcomes :
          IdleEvent("delete_task", sel, Cancelled, sv) /\ delete_task(sel, sv)
    \/ \E sel \in Selections, sv \in SaveOutcomes :
          IdleEvent("edit_task", sel, EditResult, sv)
          /\ edit_task(sel, EditResult, sv)
    \/ \E sel \in Selections, sv \in SaveOutcomes :
          IdleEvent("add_subtask", sel, SubtaskResult, sv)
          /\ add_subtask(sel, SubtaskResult, sv)
    \/ \E answer \in Answers(tasks), sv \in SaveOutcomes :
          IdleEvent("clear_all", answer, Cancelled, sv) /\ clear_all(answer, sv)
    \/ \E index \in NearestRows :
          IdleEvent("on_drag_start", index, Cancelled, "ok") /\ on_drag_start(index)
    \/ \E index \in NearestRows :
          IdleEvent("on_drag_motion", index, Cancelled, "ok")
          /\ on_drag_motion(index)
    \/ \E index \in NearestRows, sv \in SaveOutcomes :
          IdleEvent("on_drag_release", index, Cancelled, sv)
          /\ on_drag_release(index, sv)
    \/ \E mode \in SortModes :
          IdleEvent("set_sort_mode", mode, Cancelled, "ok") /\ set_sort_mode(mode)

SpecIdle == InitIdle /\ [][NextIdle]_vars

(***************************************************************************)
(* Claims about the whole application.                                     *)
(***************************************************************************)
\* C21: clear_all on an empty list opens no ConfirmDialog, changes nothing
\* and saves nothing; on a non-empty list the answer no (or Escape) leaves
\* the task list and the file as they were, and the answer yes, when the
\* save succeeds, leaves the task list empty and the file holding the empty
\* JSON array.
C21_ClearAllConfirmed ==
    [][(last'.op = "clear_all" /\ last'.outcome \in {"returns", "save_ok"}) =>
          IF tasks = <<>>
          THEN /\ last'.row = None
               /\ last'.outcome = "returns"
               /\ tasks' = tasks /\ file' = file
          ELSE IF last'.row = TRUE
          THEN /\ last'.outcome = "save_ok"
               /\ tasks' = <<>>
               /\ file' = Holding(<<Tok("["), Tok("]")>>)
               /\ load(file').data = <<>> /\ ~load(file').corrupt
          ELSE /\ last'.row = FALSE
               /\ last'.outcome = "returns"
               /\ tasks' = tasks /\ file' = file]_vars

\* the user answered yes and the list of two tasks was cleared
C21_Witness ==
    /\ last.op = "clear_all"
    /\ last.outcome = "save_ok"
    /\ last.row = TRUE
    /\ tasks = <<>>
    /\ index_map = <<>>
    /\ file = Holding(Dump(<<>>))

\* C22: while every save has succeeded, once a handler has completed a
\* mutation the file holds a JSON array that loads as the task list in
\* memory.  A handler that changes the task list calls save, with the
\* changed list: after a successful save the file holds the dump of the new
\* list and the row map is rebuilt from it, and when the save raises the
\* change is already made and the row map is not rebuilt (an edit to the
\* values a task has, and a drop that puts the task back where it was, save
\* the list they found).  set_sort_mode writes no file and leaves the task
\* list as it is.
C22_FileFollowsMemory ==
    [][/\ (last'.mutated /\ ~last'.failed) =>
             /\ HoldsArray(file')
             /\ load(file').data = tasks'
       /\ (~last.failed /\ tasks' # tasks) =>
             last'.outcome \in {"save_ok", "save_raises", "save_torn"}
       /\ last'.outcome = "save_ok" =>
             /\ file' = Holding(Dump(tasks'))
             /\ index_map' = update_task_list(tasks', sort_mode')
       /\ (~last.failed /\ last'.outcome \in {"save_raises", "save_torn"}) =>
             /\ last'.op \notin {"edit_task", "on_drag_release"} => tasks' # tasks
             /\ index_map' = index_map
       /\ last'.op = "set_sort_mode" =>
             /\ file' = file
             /\ tasks' = tasks
             /\ last'.outcome = "returns"]_vars

\* the file that was no JSON holds the one task added since, and the file of
\* two tasks holds them in the order a reorder gave them
C22_Witness ==
    /\ last.mutated /\ ~last.failed
    /\ file = Holding(Dump(tasks))
    /\ \/ last.op = "add_task" /\ Len(tasks) = 1
       \/ /\ last.op = "on_drag_release"
          /\ Len(tasks) = 2 /\ tasks[1].id = 2 /\ tasks[2].id = 1

\* the row map is the projection of the task list in memory under the sort
\* mode, and each of its rows names a task or subtask the list holds
MapIsProjection ==
    /\ index_map = update_task_list(tasks, sort_mode)
    /\ Len(index_map) = Rows(tasks)
    /\ \A p \in DOMAIN index_map :
          Resolves(tasks, index_map[p][1], index_map[p][2])

\* C24: in every state, also after a save that raised, the row map is the
\* projection of the task list under the sort mode, with one row for each
\* task and subtask and every row within the list, and drag_start_index is
\* None or the row of a task in that map.
C24_MapFollowsMemory ==
    /\ MapIsProjection
    /\ drag_start_index # None =>
          /\ InRange(index_map, drag_start_index)
          /\ At(index_map, drag_start_index)[2] = None
====
